---- MODULE Spec2Model ----
(***************************************************************************)
(* A model of NIRTorch's graph executor (src/nirtorch/from_nir.py) and of  *)
(* its IR extraction (src/nirtorch/to_nir.py).                             *)
(*                                                                         *)
(* Spec        : a Graph is handed to GraphExecutor.__init__, and a caller *)
(*               then makes forward(data, old_state) calls, passing either *)
(*               no state or a state object an earlier call returned.      *)
(*               A forward call is walked one node of the execution order  *)
(*               at a time.                                                *)
(* SpecExtract : extract_nir_graph is run on a traced graph, a model_map   *)
(*               and ignore_dims, one traced node at a time.               *)
(***************************************************************************)
EXTENDS Integers, Sequences, FiniteSets, TLC

\* ------------------------------------------------------------------ bounds
MaxEdges == 3      \* edges of a graph handed to the executor
MaxCalls == 2      \* forward calls made on one executor
MaxTraceEdges == 2 \* edges of a traced graph handed to extract_nir_graph

\* ------------------------------------------------------------- the inputs
\* Node names.  Names are in the form sanitize_name leaves unchanged (no
\* dots), so that stateful_modules is keyed by the node names themselves.
Nodes == {"a", "lif", "c"}
\* The names that contain the substring "lif" (from_nir.py line 111).
LifNames == {"lif"}
\* A fixed enumeration order of the names (dict / list iteration order).
NodeSeq == <<"a", "lif", "c">>

\* Tensors are vectors of two integers, all of one shape.
Zero == <<0, 0>>
One == <<1, 1>>
DataSet == {<<1, 2>>, <<3, 4>>}

\* The units a node may be mapped to; None is "no mapped unit".
None == "None"
Kinds == {"Linear", "Synaptic", "RSynaptic"}

\* ---------------------------------------------------------------- helpers
EmptyDict == [n \in {} |-> <<>>]
Put(d, k, v) == [x \in (DOMAIN d) \cup {k} |-> IF x = k THEN v ELSE d[x]]

VAdd(u, v) == [i \in 1..2 |-> u[i] + v[i]]

\* torch.stack(summed_inputs).sum(0): the elementwise sum of the tensors.
RECURSIVE StackSum(_)
StackSum(s) == IF Len(s) = 1 THEN s[1] ELSE VAdd(s[1], StackSum(Tail(s)))

RECURSIVE FilterSeq(_, _)
FilterSeq(s, S) ==
    IF s = <<>> THEN <<>>
    ELSE (IF s[1] \in S THEN <<s[1]>> ELSE <<>>) \o FilterSeq(Tail(s), S)

Range(s) == {s[i] : i \in DOMAIN s}

\* ------------------------------------------------------------------ state
VARIABLES
    edges,            \* Graph: the set of directed edges <<src, dst>>
    inputs,           \* Graph.inputs: the declared input nodes, a list
    elem,             \* Node.elem of every node: a unit kind or None
    ctor,             \* "new", "ok", or the error __init__ raised
    stateful_modules, \* GraphExecutor.stateful_modules
    execution_order,  \* GraphExecutor.execution_order
    heap,             \* the GraphExecutorState objects, by identity
    pc,               \* "idle" or "loop" (inside forward)
    data,             \* forward's data argument
    old_state,        \* forward's old_state: an object of the heap
    new_state,        \* forward's new_state: an object of the heap
    first_node,       \* forward's first_node flag
    i,                \* position of forward's loop in execution_order
    trace,            \* the unit invocations of the running forward call
    calls,            \* the forward calls made so far, with their results
    node_list,        \* extract: torch_graph.node_list, the traced names
    outgoing,         \* extract: the outgoing_nodes of every traced node
    model_map,        \* extract: what model_map returns for a node's unit
    ignore_dims,      \* extract: the ignore_dims argument
    nir_nodes,        \* extract: the nir_nodes dict, keys in insertion order
    nir_edges,        \* extract: the nir_edges list
    xpc,              \* extract: "begin", "nodes", "edges", "dedup", "done"
                      \*          or the error raised
    indx,             \* extract: position of the running loop in node_list
    ir,               \* extract: the NIRGraph returned
    nir_graph,        \* load: the NIRGraph given, nodes and edges
    load_map,         \* load: what model_map returns for every IR node
    torch_nodes,      \* load: the nodes dict of _switch_models_with_map
    graph,            \* load: the Graph built by _mod_nir_to_graph
    resolved,         \* load: the endpoint names looked up for every edge
    lpc,              \* load: "switch", "graph", "edges", "done" or the
                      \*       error raised
    lidx              \* load: position of the running loop

execAll == <<edges, inputs, elem, ctor, stateful_modules, execution_order,
             heap, pc, data, old_state, new_state, first_node, i, trace, calls>>
extractAll == <<node_list, outgoing, model_map, ignore_dims, nir_nodes,
                nir_edges, xpc, indx, ir>>
loadAll == <<nir_graph, load_map, torch_nodes, graph, resolved, lpc, lidx>>
vars == <<execAll, extractAll, loadAll>>

graphVars == <<edges, inputs, elem>>
execVars == <<ctor, stateful_modules, execution_order>>

\* ------------------------------------------------------------- the units
\* inspect.signature(module.forward): the number of parameters of forward.
Arity(kind) ==
    CASE kind = "Linear" -> 1
      [] kind = "Synaptic" -> 3
      [] kind = "RSynaptic" -> 4

\* The snnTorch units of the model are built with init_hidden = False.
IsSnntorch(kind) == kind \in {"Synaptic", "RSynaptic"}
InitHidden(kind) == FALSE

\* GraphExecutor._is_module_stateful
IsModuleStateful(kind) ==
    IF IsSnntorch(kind) THEN ~InitHidden(kind) ELSE Arity(kind) > 1

\* node.elem(*inputs): the value a unit returns, as a tuple of tensors (a
\* stateless unit returns one tensor, modelled as a tuple of length 1), or
\* <<>> for the TypeError of a call with a number of arguments the unit's
\* forward does not take.
CallUnit(kind, args) ==
    CASE kind = "Linear" /\ Len(args) = 1 -> <<VAdd(args[1], One)>>
      [] kind = "Synaptic" /\ Len(args) = 1 ->
            <<VAdd(args[1], One), args[1], VAdd(args[1], One)>>
      [] kind = "Synaptic" /\ Len(args) = 3 ->
            LET syn == VAdd(args[2], args[1])
                mem == VAdd(VAdd(args[3], syn), One)
            IN <<mem, syn, mem>>
      [] kind = "RSynaptic" /\ Len(args) = 1 ->
            <<VAdd(args[1], One), args[1], VAdd(args[1], One)>>
      [] kind = "RSynaptic" /\ Len(args) = 4 ->
            LET syn == VAdd(VAdd(args[3], args[1]), args[2])
                mem == VAdd(VAdd(args[4], syn), One)
            IN <<mem, syn, mem>>
      [] OTHER -> <<>>

\* --------------------------------------------------------------- the graph
\* Graph.find_source_nodes_of(node): the nodes with an edge to node.
FindSourceNodesOf(n) == FilterSeq(NodeSeq, {m \in Nodes : <<m, n>> \in edges})

\* n.outgoing_nodes.keys()
OutgoingNodes(n) == {m \in Nodes : <<n, m>> \in edges}

\* The nodes reachable from start along outgoing edges, start included.
RECURSIVE ReachFrom(_, _)
ReachFrom(S, k) ==
    IF k = 0 THEN S
    ELSE ReachFrom(S \cup UNION {OutgoingNodes(n) : n \in S}, k - 1)
Reachable(start) == ReachFrom({start}, Cardinality(Nodes))

\* The sequences over Nodes without repetition.
RECURSIVE Perms(_)
Perms(S) ==
    IF S = {} THEN {<<>>}
    ELSE UNION {{<<x>> \o p : p \in Perms(S \ {x})} : x \in S}

\* trace_execution(start, edge_fn): the orders the resolver may return.  An
\* order holds exactly the nodes reachable from start, each once, start
\* first, every other node after at least one of its predecessors.
TraceExecution(start) ==
    {o \in Perms(Reachable(start)) :
        /\ o[1] = start
        /\ \A k \in 2..Len(o) : \E j \in 1..(k - 1) : <<o[j], o[k]>> \in edges}

\* --------------------------------------------------------------- Init
\* The edges Graph.add_edge is given: between two distinct nodes, a feedback
\* connection being an edge back to an earlier node.
EdgeSet == {e \in Nodes \X Nodes : e[1] # e[2]}

InputLists ==
    {<<>>} \cup {<<n>> : n \in Nodes}
           \cup {<<n, m>> : n \in {"a"}, m \in Nodes}

\* No extraction is run.
ExtractIdle ==
    /\ node_list = <<>>
    /\ outgoing = EmptyDict
    /\ model_map = EmptyDict
    /\ ignore_dims = {}
    /\ nir_nodes = [keys |-> <<>>, vals |-> EmptyDict]
    /\ nir_edges = <<>>
    /\ xpc = "idle"
    /\ indx = 0
    /\ ir = [nodes |-> [keys |-> <<>>, vals |-> EmptyDict], edges |-> <<>>]

\* No IR is loaded.
NoGraph == [module_names |-> EmptyDict, inputs |-> <<>>, edges |-> <<>>]
LoadIdle ==
    /\ nir_graph = [nodes |-> [keys |-> <<>>, vals |-> EmptyDict],
                    edges |-> <<>>]
    /\ load_map = EmptyDict
    /\ torch_nodes = [keys |-> <<>>, vals |-> EmptyDict]
    /\ graph = NoGraph
    /\ resolved = <<>>
    /\ lpc = "idle"
    /\ lidx = 0

Init ==
    /\ ExtractIdle
    /\ LoadIdle
    /\ edges \in {E \in SUBSET EdgeSet : Cardinality(E) <= MaxEdges}
    /\ inputs \in InputLists
    /\ elem \in [Nodes -> Kinds \cup {None}]
    /\ ctor = "new"
    /\ stateful_modules = EmptyDict
    /\ execution_order = <<>>
    /\ heap = <<>>
    /\ pc = "idle"
    /\ data = Zero
    /\ old_state = 0
    /\ new_state = 0
    /\ first_node = TRUE
    /\ i = 0
    /\ trace = <<>>
    /\ calls = <<>>

\* --------------------------------------------------------- construction
\* GraphExecutor.instantiate_modules: one entry per node with a mapped unit.
InstantiateModules ==
    [n \in {m \in Nodes : elem[m] # None} |-> IsModuleStateful(elem[n])]

\* A slip of line 52: only a graph without any declared input is refused.
InputsError_EmptyOnly ==
    IF Len(inputs) = 0 THEN "ValueError: only one input" ELSE "ok"

\* GraphExecutor.get_execution_order: the error it raises, or "ok".
InputsError == IF Len(inputs) # 1 THEN "ValueError: only one input" ELSE "ok"

\* GraphExecutor.__init__
Construct ==
    /\ ctor = "new"
    /\ stateful_modules' = InstantiateModules
    /\ IF InputsError # "ok"
       THEN /\ ctor' = InputsError
            /\ UNCHANGED execution_order
       ELSE \E o \in TraceExecution(inputs[1]) :
              /\ execution_order' = o
              /\ ctor' = IF Len(o) = 0 THEN "ValueError: Graph is empty"
                         ELSE "ok"
    /\ UNCHANGED <<loadAll, extractAll, graphVars, heap, pc, data, old_state,
                   new_state, first_node, i, trace, calls>>

\* ---------------------------------------------------------------- forward
\* GraphExecutorState(): an object with an empty state and an empty cache.
GraphExecutorState == [state |-> EmptyDict, cache |-> EmptyDict]

\* The state objects earlier calls returned to the caller.
Returned == {calls[k].new : k \in {j \in DOMAIN calls : calls[j].result = "ok"}}

\* forward, lines 119-125: old_state defaults to a new empty object, and
\* new_state is a new empty object.  ref = 0 stands for an omitted old_state.
Forward(d, ref) ==
    /\ ctor = "ok"
    /\ pc = "idle"
    /\ Len(calls) < MaxCalls
    /\ data' = d
    /\ IF ref = 0
       THEN /\ heap' = heap \o <<GraphExecutorState, GraphExecutorState>>
            /\ old_state' = Len(heap) + 1
            /\ new_state' = Len(heap) + 2
       ELSE /\ heap' = Append(heap, GraphExecutorState)
            /\ old_state' = ref
            /\ new_state' = Len(heap) + 1
    /\ first_node' = TRUE
    /\ i' = 1
    /\ trace' = <<[given |-> ref, heap_size |-> Len(heap),
                    before |-> IF ref = 0 THEN GraphExecutorState
                               ELSE heap[ref]]>>
    /\ pc' = "loop"
    /\ UNCHANGED <<loadAll, extractAll, graphVars, execVars, calls>>

\* An executor that keeps the state it returned last and reads it in place
\* of the caller's old_state.
PrevState_Retained ==
    IF Returned = {} THEN old_state
    ELSE CHOOSE r \in Returned : \A q \in Returned : q <= r

\* The object _apply_module reads the previous call's values from: the
\* old_state forward was given (or the empty one it made).
PrevState == old_state

\* A slip of lines 83-84: the hidden values are looked up in the state
\* object of the running call instead of the previous call's.
HiddenInputs_FromNew(n) ==
    IF n \in DOMAIN stateful_modules /\ n \in DOMAIN heap[new_state].state
    THEN heap[new_state].state[n]
    ELSE <<>>

\* _apply_module, lines 81-84: the hidden values of the previous call.
HiddenInputs(n) ==
    IF n \in DOMAIN stateful_modules /\ n \in DOMAIN heap[PrevState].state
    THEN heap[PrevState].state[n]
    ELSE <<>>

\* A slip of lines 89-95: two independent tests instead of if/elif, so that
\* a predecessor contributes its previous and its current value.
RECURSIVE FromInputNodes_Both(_)
FromInputNodes_Both(input_nodes) ==
    IF input_nodes = <<>> THEN <<>>
    ELSE LET m == input_nodes[1]
             new_cache == heap[new_state].cache
             old_cache == heap[PrevState].cache
         IN (IF m \in DOMAIN old_cache THEN <<old_cache[m]>> ELSE <<>>)
            \o (IF m \in DOMAIN new_cache THEN <<new_cache[m]>> ELSE <<>>)
            \o FromInputNodes_Both(Tail(input_nodes))

\* A slip of lines 89-95: the previous call's value is preferred to the one
\* produced in this pass.
RECURSIVE FromInputNodes_OldFirst(_)
FromInputNodes_OldFirst(input_nodes) ==
    IF input_nodes = <<>> THEN <<>>
    ELSE LET m == input_nodes[1]
             new_cache == heap[new_state].cache
             old_cache == heap[PrevState].cache
         IN (IF m \in DOMAIN old_cache THEN <<old_cache[m]>>
             ELSE IF m \in DOMAIN new_cache THEN <<new_cache[m]>>
             ELSE <<>>) \o FromInputNodes_OldFirst(Tail(input_nodes))

\* _apply_module, lines 88-95: what the predecessors contribute.
RECURSIVE FromInputNodes(_)
FromInputNodes(input_nodes) ==
    IF input_nodes = <<>> THEN <<>>
    ELSE LET m == input_nodes[1]
             new_cache == heap[new_state].cache
             old_cache == heap[PrevState].cache
         IN (IF m \notin DOMAIN new_cache /\ m \in DOMAIN old_cache
             THEN <<old_cache[m]>>
             ELSE IF m \in DOMAIN new_cache THEN <<new_cache[m]>>
             ELSE <<>>) \o FromInputNodes(Tail(input_nodes))

\* A slip of line 87: the data is given to every node, not to the first.
SummedInputs_DataToAll(n) == <<data>> \o FromInputNodes(FindSourceNodesOf(n))

\* _apply_module, line 87 and lines 88-95: summed_inputs.
SummedInputs(n) ==
    (IF first_node THEN <<data>> ELSE <<>>) \o FromInputNodes(FindSourceNodesOf(n))

\* A slip of lines 99-102: the first gathered value is used, the others are
\* dropped.
DataInput_First(summed_inputs) == summed_inputs[1]

\* _apply_module, lines 99-102: the data input of the unit.
DataInput(summed_inputs) ==
    IF Len(summed_inputs) = 1 THEN summed_inputs[1] ELSE StackSum(summed_inputs)

\* _apply_module, lines 81-102: the argument list the unit is called with.
ModuleInputs(n) == <<DataInput(SummedInputs(n))>> \o HiddenInputs(n)

\* _apply_module, lines 107-109: the unit is an snnTorch RSynaptic.
IsRSynaptic(kind) == kind = "RSynaptic"

\* A slip of line 115: the whole result is kept as the hidden values.
NewHidden_Whole(n, out) ==
    IF IsRSynaptic(elem[n]) /\ ~InitHidden(elem[n]) THEN out
    ELSE IF stateful_modules[n] THEN out
    ELSE <<>>

\* _apply_module, lines 107-116: the hidden values kept of a unit's result;
\* <<>> stands for "no entry is written".
NewHidden(n, out) ==
    IF IsRSynaptic(elem[n]) /\ ~InitHidden(elem[n]) THEN out
    ELSE IF stateful_modules[n] THEN Tail(out)
    ELSE <<>>

\* A slip of lines 131-138: the results are written to old_state.
WriteTarget_Old == old_state

\* The object forward's loop writes its results to.
WriteTarget == new_state

\* A forward call that ends: its record is added to calls.
EndCall(result, n, out, new, tr) ==
    /\ calls' = Append(calls, [data |-> data, given |-> tr[1].given,
                               heap_size |-> tr[1].heap_size,
                               old |-> old_state, before |-> tr[1].before,
                               result |-> result, node |-> n, out |-> out,
                               new |-> new, trace |-> Tail(tr)])
    /\ pc' = "idle"
    /\ trace' = <<>>

\* forward, lines 127-130: a node without a mapped unit is skipped.
Skip ==
    /\ pc = "loop"
    /\ i <= Len(execution_order)
    /\ elem[execution_order[i]] = None
    /\ i' = i + 1
    /\ UNCHANGED <<loadAll, extractAll, graphVars, execVars, heap, pc, data, old_state,
                   new_state, first_node, trace, calls>>

\* forward, lines 131-139, with _apply_module, lines 70-117.
ApplyModule ==
    /\ pc = "loop"
    /\ i <= Len(execution_order)
    /\ elem[execution_order[i]] # None
    /\ LET n == execution_order[i]
           summed_inputs == SummedInputs(n)
       IN IF Len(summed_inputs) = 0
          THEN /\ EndCall("ValueError: No inputs found", n, Zero, 0, trace)
               /\ UNCHANGED <<heap, first_node, i>>
          ELSE LET args == ModuleInputs(n)
                   out == CallUnit(elem[n], args)
                   inv == [node |-> n, summed |-> summed_inputs,
                           args |-> args, out |-> out, pos |-> i]
               IN IF Len(out) = 0
                  THEN /\ EndCall("TypeError", n, Zero, 0, Append(trace, inv))
                       /\ UNCHANGED <<heap, first_node, i>>
                  ELSE IF IsRSynaptic(elem[n]) /\ ~InitHidden(elem[n])
                          /\ n \notin LifNames
                  THEN /\ EndCall("AssertionError", n, Zero, 0,
                                  Append(trace, inv))
                       /\ UNCHANGED <<heap, first_node, i>>
                  ELSE LET hid == NewHidden(n, out)
                           tgt == heap[WriteTarget]
                       IN /\ heap' = [heap EXCEPT ![WriteTarget] =
                                 [state |-> IF hid = <<>> THEN tgt.state
                                            ELSE Put(tgt.state, n, hid),
                                  cache |-> Put(tgt.cache, n, out[1])]]
                          /\ trace' = Append(trace, inv)
                          /\ first_node' = FALSE
                          /\ i' = i + 1
                          /\ UNCHANGED <<pc, calls>>
    /\ UNCHANGED <<loadAll, extractAll, graphVars, execVars, data, old_state, new_state>>

\* forward, lines 141-144: the node whose cache entry is the output, or the
\* error that looking it up raises.
OutputNode ==
    LET last == execution_order[Len(execution_order)]
        cache == heap[new_state].cache
    IN IF last \in DOMAIN cache THEN [err |-> "ok", node |-> last]
       ELSE IF Len(execution_order) < 2 THEN [err |-> "IndexError", node |-> last]
       ELSE LET prev == execution_order[Len(execution_order) - 1]
            IN IF prev \in DOMAIN cache THEN [err |-> "ok", node |-> prev]
               ELSE [err |-> "KeyError", node |-> prev]

Return ==
    /\ pc = "loop"
    /\ i > Len(execution_order)
    /\ LET r == OutputNode
       IN IF r.err = "ok"
          THEN EndCall("ok", r.node, heap[new_state].cache[r.node], new_state,
                       trace)
          ELSE EndCall(r.err, r.node, Zero, 0, trace)
    /\ UNCHANGED <<loadAll, extractAll, graphVars, execVars, heap, data, old_state,
                   new_state, first_node, i>>

Next ==
    \/ Construct
    \/ \E d \in DataSet, ref \in {0} \cup Returned : Forward(d, ref)
    \/ Skip
    \/ ApplyModule
    \/ Return

Spec == Init /\ [][Next]_vars

\* =============================================================== extraction
\* Names are sequences of dot-free parts: "a" is <<"a">> and "a.w" is
\* <<"a", "w">>, so that f"{x}.{y}" is the concatenation of x and y.
Dotted(x, y) == x \o y

\* The names the tracer may give a traced node (a nested module is named
\* with a dot).
TracedNames == {<<"a">>, <<"b">>, <<"a", "w">>}
TracedSeq == <<<<"a">>, <<"b">>, <<"a", "w">>>>

\* sample_data.shape, and torch_graph.module_output_types[node.elem].
SampleShape == <<5, 2>>
ModuleOutputTypes(n) ==
    CASE n = <<"a">> -> <<5, 3>>
      [] n = <<"b">> -> <<5, 4>>
      [] OTHER -> <<5, 6>>

\* np.delete(shape, dims): shape without the entries at the 0-based indices.
RECURSIVE NpDeleteFrom(_, _, _)
NpDeleteFrom(shape, dims, k) ==
    IF shape = <<>> THEN <<>>
    ELSE (IF k \in dims THEN <<>> ELSE <<shape[1]>>)
         \o NpDeleteFrom(Tail(shape), dims, k + 1)
NpDelete(shape, dims) == NpDeleteFrom(shape, dims, 0)

\* IR nodes.
NirInput(shape) == [kind |-> "Input", shape |-> shape]
NirOutput(shape) == [kind |-> "Output", shape |-> shape]
NirLeaf == [kind |-> "Leaf", shape |-> <<>>]

\* What model_map may return: a leaf IR node, or one of two NIRGraphs whose
\* edges name their own nodes.
MapKinds == {"Leaf", "Chain", "Single"}
IsNIRGraph(kind) == kind \in {"Chain", "Single"}
\* mapped_node.nodes.items(), in order, and mapped_node.edges.
SubgraphNodes(kind) ==
    IF kind = "Chain"
    THEN <<[k |-> <<"input">>, v |-> NirInput(<<2>>)],
           [k |-> <<"w">>, v |-> NirLeaf],
           [k |-> <<"output">>, v |-> NirOutput(<<2>>)]>>
    ELSE <<[k |-> <<"w">>, v |-> NirLeaf]>>
SubgraphEdges(kind) ==
    IF kind = "Chain"
    THEN <<<<<<"input">>, <<"w">>>>, <<<<"w">>, <<"output">>>>>>
    ELSE <<>>

\* A dict that keeps its keys in insertion order: d[k] = v.
DictSet(d, k, v) ==
    [keys |-> IF k \in Range(d.keys) THEN d.keys ELSE Append(d.keys, k),
     vals |-> Put(d.vals, k, v)]

\* torch_graph.get_root(): the traced nodes without an incoming edge.
GetRoot ==
    {n \in Range(node_list) : \A m \in Range(node_list) : n \notin outgoing[m]}

\* The traced graphs: a list of distinct names and their outgoing edges.
TracedGraphs ==
    UNION {Perms(S) : S \in (SUBSET TracedNames) \ {{}}}
EdgeCount(out) ==
    Cardinality({e \in (DOMAIN out) \X (DOMAIN out) : e[2] \in out[e[1]]})

\* No executor is built.
ExecIdle ==
    /\ edges = {}
    /\ inputs = <<>>
    /\ elem = [n \in Nodes |-> None]
    /\ ctor = "new"
    /\ stateful_modules = EmptyDict
    /\ execution_order = <<>>
    /\ heap = <<>>
    /\ pc = "idle"
    /\ data = Zero
    /\ old_state = 0
    /\ new_state = 0
    /\ first_node = TRUE
    /\ i = 0
    /\ trace = <<>>
    /\ calls = <<>>

InitExtract ==
    /\ ExecIdle
    /\ LoadIdle
    /\ node_list \in TracedGraphs
    /\ outgoing \in {out \in [Range(node_list) -> SUBSET Range(node_list)] :
                        EdgeCount(out) <= MaxTraceEdges}
    /\ model_map \in [Range(node_list) -> MapKinds]
    /\ ignore_dims \in {{}, {0}}
    /\ nir_nodes = [keys |-> <<>>, vals |-> EmptyDict]
    /\ nir_edges = <<>>
    /\ xpc = "begin"
    /\ indx = 0
    /\ ir = [nodes |-> [keys |-> <<>>, vals |-> EmptyDict], edges |-> <<>>]

\* A slip of line 50: only a trace with several roots is refused.
RootsError_ManyOnly ==
    IF Cardinality(GetRoot) > 1 THEN "ValueError: only one input" ELSE "ok"

\* extract_nir_graph, lines 48-53: the error raised for the roots, or "ok".
RootsError ==
    IF Cardinality(GetRoot) # 1 THEN "ValueError: only one input" ELSE "ok"

\* extract_nir_graph, lines 48-62.
ExtractBegin ==
    /\ xpc = "begin"
    /\ IF RootsError # "ok"
       THEN /\ xpc' = RootsError
            /\ UNCHANGED <<nir_nodes, nir_edges, indx>>
       ELSE /\ nir_nodes' =
                 DictSet([keys |-> <<>>, vals |-> EmptyDict], <<"input">>,
                         NirInput(IF ignore_dims # {}
                                  THEN NpDelete(SampleShape, ignore_dims)
                                  ELSE SampleShape))
            /\ nir_edges' = <<>>
            /\ indx' = 1
            /\ xpc' = "nodes"
    /\ UNCHANGED <<loadAll, execAll, node_list, outgoing, model_map, ignore_dims, ir>>

\* lines 70-76: the members of a subgraph are added under "parent.child".
RECURSIVE AddSubgraphNodes(_, _, _)
AddSubgraphNodes(d, name, items) ==
    IF items = <<>> THEN d
    ELSE AddSubgraphNodes(DictSet(d, Dotted(name, items[1].k), items[1].v),
                          name, Tail(items))

\* lines 78-79: the edges of a subgraph, moved under "parent.".
RECURSIVE SubgraphEdgesUnder(_, _)
SubgraphEdgesUnder(name, es) ==
    IF es = <<>> THEN <<>>
    ELSE <<<<Dotted(name, es[1][1]), Dotted(name, es[1][2])>>>>
         \o SubgraphEdgesUnder(name, Tail(es))

\* lines 86-88: an edge between every two consecutive keys.
RECURSIVE ChainEdges(_)
ChainEdges(keys) ==
    IF Len(keys) < 2 THEN <<>>
    ELSE <<<<keys[1], keys[2]>>>> \o ChainEdges(Tail(keys))

\* lines 67-81: nir_nodes after the node of name is converted.
NodesWith(d, name) ==
    IF IsNIRGraph(model_map[name])
    THEN AddSubgraphNodes(d, name, SubgraphNodes(model_map[name]))
    ELSE DictSet(d, name, NirLeaf)

\* extract_nir_graph, lines 65-88: one pass of the first loop.
ConvertNode ==
    /\ xpc = "nodes"
    /\ indx <= Len(node_list)
    /\ LET name == node_list[indx]
           d == NodesWith(nir_nodes, name)
       IN /\ nir_nodes' = d
          /\ nir_edges' =
                nir_edges
                \o (IF IsNIRGraph(model_map[name])
                    THEN SubgraphEdgesUnder(name, SubgraphEdges(model_map[name]))
                    ELSE <<>>)
                \o (IF indx = 1 THEN ChainEdges(d.keys) ELSE <<>>)
    /\ indx' = IF indx = Len(node_list) THEN 1 ELSE indx + 1
    /\ xpc' = IF indx = Len(node_list) THEN "edges" ELSE "nodes"
    /\ UNCHANGED <<loadAll, execAll, node_list, outgoing, model_map, ignore_dims, ir>>

\* lines 92-93: the edges to the recorded successors of a node.
TracedEdges(name) ==
    LET dsts == FilterSeq(TracedSeq, outgoing[name])
    IN [k \in 1..Len(dsts) |-> <<name, dsts[k]>>]

\* line 96: the name of the synthesized output node.
OutName(name) == <<"output">>

\* extract_nir_graph, lines 91-106: one pass of the second loop.
NodeEdges ==
    /\ xpc = "edges"
    /\ indx <= Len(node_list)
    /\ LET name == node_list[indx]
       IN IF outgoing[name] = {}
          THEN /\ nir_nodes' =
                    DictSet(nir_nodes, OutName(name),
                            NirOutput(IF ignore_dims # {}
                                      THEN NpDelete(ModuleOutputTypes(name),
                                                    ignore_dims)
                                      ELSE ModuleOutputTypes(name)))
               /\ nir_edges' = nir_edges \o TracedEdges(name)
                                  \o <<<<name, OutName(name)>>>>
          ELSE /\ nir_edges' = nir_edges \o TracedEdges(name)
               /\ UNCHANGED nir_nodes
    /\ indx' = indx + 1
    /\ xpc' = IF indx = Len(node_list) THEN "dedup" ELSE "edges"
    /\ UNCHANGED <<loadAll, execAll, node_list, outgoing, model_map, ignore_dims, ir>>

\* line 109, list(set(nir_edges)): every pair once, in an order the set
\* decides; the order of first occurrence and its reverse stand for it.
RECURSIVE Distinct(_)
Distinct(s) ==
    IF s = <<>> THEN <<>>
    ELSE LET d == Distinct(SubSeq(s, 1, Len(s) - 1))
         IN IF s[Len(s)] \in Range(d) THEN d ELSE Append(d, s[Len(s)])
Reverse(s) == [k \in 1..Len(s) |-> s[Len(s) + 1 - k]]
\* A slip of line 109: the edge list is returned as it was built.
ListOfSet_Kept(s) == {s}

ListOfSet(s) == {Distinct(s), Reverse(Distinct(s))}

\* extract_nir_graph, lines 108-111.
ExtractReturn ==
    /\ xpc = "dedup"
    /\ \E es \in ListOfSet(nir_edges) :
          /\ nir_edges' = es
          /\ ir' = [nodes |-> nir_nodes, edges |-> es]
    /\ xpc' = "done"
    /\ UNCHANGED <<loadAll, execAll, node_list, outgoing, model_map, ignore_dims,
                   nir_nodes, indx>>

NextExtract ==
    \/ ExtractBegin
    \/ ConvertNode
    \/ NodeEdges
    \/ ExtractReturn

SpecExtract == InitExtract /\ [][NextExtract]_vars

\* ================================================================== load
\* The names of IR nodes and of edge endpoints, tuples of dot-free parts as
\* in extraction: a subgraph "s" inlined by extraction leaves "s.input" and
\* "s.output" as nodes and "s" as an edge endpoint.
LoadNames == <<<<"s">>, <<"s", "input">>, <<"s", "output">>>>
IrKinds == {"Input", "Output", "Leaf"}
MaxLoadEdges == 2

\* nir_graph.nodes: the keys, in order, and nir_graph.edges.
NirNodeLists == {FilterSeq(LoadNames, S) : S \in SUBSET Range(LoadNames)}
NirEdgeLists ==
    UNION {[1..n -> Range(LoadNames) \X Range(LoadNames)] :
              n \in 0..MaxLoadEdges}

\* Units are objects: the one that a call of model_map, or of
\* torch.nn.Identity(), makes for the node `of`. None is a single object.
NoModule == [kind |-> None, of |-> <<>>]
Module(kind, of) == IF kind = None THEN NoModule ELSE [kind |-> kind, of |-> of]

InitLoad ==
    /\ ExecIdle
    /\ ExtractIdle
    /\ \E keys \in NirNodeLists :
          nir_graph \in [nodes : [keys : {keys},
                                  vals : [Range(keys) -> IrKinds]],
                         edges : NirEdgeLists]
    /\ load_map \in [Range(nir_graph.nodes.keys) -> {None, "Linear"}]
    /\ torch_nodes = [keys |-> <<>>, vals |-> EmptyDict]
    /\ graph = NoGraph
    /\ resolved = <<>>
    /\ lpc = "switch"
    /\ lidx = 1

\* A slip of line 164: every node the mapping declines gets the passthrough.
SwitchDefaultModels_Any(node) == "Identity"

\* _switch_default_models: Identity for Input and Output, None otherwise.
SwitchDefaultModels(node) ==
    IF node = "Input" \/ node = "Output" THEN "Identity" ELSE None

\* lines 171-174: the unit of the node called name.
MappedModule(name) ==
    IF load_map[name] = None
    THEN Module(SwitchDefaultModels(nir_graph.nodes.vals[name]), name)
    ELSE Module(load_map[name], name)

\* _switch_models_with_map, one turn of the loop of lines 170-174.
SwitchNode ==
    /\ lpc = "switch"
    /\ lidx <= Len(nir_graph.nodes.keys)
    /\ LET name == nir_graph.nodes.keys[lidx]
       IN torch_nodes' = DictSet(torch_nodes, name, MappedModule(name))
    /\ lidx' = lidx + 1
    /\ UNCHANGED <<execAll, extractAll, nir_graph, load_map, graph, resolved,
                   lpc>>

\* line 150: {module: name for name, module in nodes.items()}; of the names
\* of one module, the last one stays.
ModuleNames(d) ==
    [m \in {d.vals[k] : k \in Range(d.keys)} |->
        d.keys[CHOOSE j \in DOMAIN d.keys :
                  /\ d.vals[d.keys[j]] = m
                  /\ \A k \in DOMAIN d.keys :
                        d.vals[d.keys[k]] = m => k <= j]]

\* line 151: the names of the nir.Input nodes, in order.
GraphInputs ==
    FilterSeq(nir_graph.nodes.keys,
              {n \in Range(nir_graph.nodes.keys) :
                  nir_graph.nodes.vals[n] = "Input"})

\* _switch_models_with_map returns (line 178) and _mod_nir_to_graph builds
\* the Graph (lines 150-152).
ModNirToGraph ==
    /\ lpc = "switch"
    /\ lidx > Len(nir_graph.nodes.keys)
    /\ graph' = [module_names |-> ModuleNames(torch_nodes),
                 inputs |-> GraphInputs,
                 edges |-> <<>>]
    /\ lpc' = "edges"
    /\ lidx' = 1
    /\ UNCHANGED <<execAll, extractAll, nir_graph, load_map, torch_nodes,
                   resolved>>

\* A slip of line 155: a source is rewritten whenever src.output is a node.
SrcName_Always(src) ==
    IF Dotted(src, <<"output">>) \in Range(torch_nodes.keys)
    THEN Dotted(src, <<"output">>)
    ELSE src

\* lines 155-158: edges may refer to subgraph inputs and outputs.
SrcName(src) ==
    IF /\ src \notin Range(torch_nodes.keys)
       /\ Dotted(src, <<"output">>) \in Range(torch_nodes.keys)
    THEN Dotted(src, <<"output">>)
    ELSE src
DstName(dst) ==
    IF /\ dst \notin Range(torch_nodes.keys)
       /\ Dotted(dst, <<"input">>) \in Range(torch_nodes.keys)
    THEN Dotted(dst, <<"input">>)
    ELSE dst

\* Graph.add_edge(source, destination): the graph gets one more edge.
GraphAddEdge(g, source, destination) ==
    [g EXCEPT !.edges = Append(@, <<source, destination>>)]

\* _mod_nir_to_graph, one turn of the loop of lines 153-159; the lookup
\* torch_graph.nodes[...] of a name that is no node raises KeyError.
AddEdge ==
    /\ lpc = "edges"
    /\ lidx <= Len(nir_graph.edges)
    /\ LET src == SrcName(nir_graph.edges[lidx][1])
           dst == DstName(nir_graph.edges[lidx][2])
       IN IF src \in Range(torch_nodes.keys) /\ dst \in Range(torch_nodes.keys)
          THEN /\ graph' = GraphAddEdge(graph, torch_nodes.vals[src],
                                        torch_nodes.vals[dst])
               /\ resolved' = Append(resolved, <<src, dst>>)
               /\ lidx' = lidx + 1
               /\ UNCHANGED lpc
          ELSE /\ lpc' = "KeyError"
               /\ UNCHANGED <<graph, resolved, lidx>>
    /\ UNCHANGED <<execAll, extractAll, nir_graph, load_map, torch_nodes>>

\* load, line 202: GraphExecutor(graph), whose get_execution_order refuses
\* a graph that has not exactly one input (lines 51-55).
LoadReturn ==
    /\ lpc = "edges"
    /\ lidx > Len(nir_graph.edges)
    /\ lpc' = IF Len(graph.inputs) # 1 THEN "ValueError" ELSE "done"
    /\ UNCHANGED <<execAll, extractAll, nir_graph, load_map, torch_nodes,
                   graph, resolved, lidx>>

NextLoad ==
    \/ SwitchNode
    \/ ModNirToGraph
    \/ AddEdge
    \/ LoadReturn

SpecLoad == InitLoad /\ [][NextLoad]_vars

\* ================================================================ claims
\* The completed forward calls, and the unit invocations of a call.
Calls == Range(calls)
Invocations(c) == Range(c.trace)
Invoked(c, n) == \E e \in Invocations(c) : e.node = n
InvocationOf(c, n) == CHOOSE e \in Invocations(c) : e.node = n
\* The call that returned the state object ref.
CallReturning(ref) == CHOOSE c \in Calls : c.result = "ok" /\ c.new = ref
Threaded(c) == c.given # 0

\* The hidden values a stateful unit returned in an invocation: the values
\* after the visible output; all of the result for RSynaptic, whose forward
\* takes back the spike it emitted along with its two hidden values.
HiddenReturned(e) ==
    IF elem[e.node] = "RSynaptic" THEN e.out ELSE Tail(e.out)
ReturnedHidden(c, n) ==
    /\ Invoked(c, n)
    /\ stateful_modules[n]
    /\ HiddenReturned(InvocationOf(c, n)) # <<>>

Stateless == \A n \in DOMAIN stateful_modules : ~stateful_modules[n]
\* Call c was given the state call p returned, and the same data.
Repeats(c, p) ==
    /\ p.result = "ok"
    /\ c.given = p.new
    /\ c.data = p.data
Position(n) == CHOOSE k \in DOMAIN execution_order : execution_order[k] = n
InOrder(n) == n \in Range(execution_order)
\* An edge that feeds the value of a mapped node back to a mapped node that
\* does not come after it in the execution order.
FeedsBack(e) ==
    /\ e \in edges
    /\ InOrder(e[1]) /\ InOrder(e[2])
    /\ elem[e[1]] # None /\ elem[e[2]] # None
    /\ Position(e[1]) >= Position(e[2])

\* C2 as stated: on a graph without stateful nodes, feedback edges or not, a
\* call given the state and the data of the call before it returns the same
\* output as that call.
C2_StatelessPure ==
    Stateless =>
       \A c \in Calls, p \in Calls :
          Repeats(c, p) => c.result = "ok" /\ c.out = p.out

\* C2, amended: the same, for graphs without stateful nodes in whose
\* execution order no edge feeds a mapped node's value back to a mapped node
\* at or before it.
C2_StatelessForwardPure ==
    (Stateless /\ \A e \in edges : ~FeedsBack(e)) =>
       \A c \in Calls, p \in Calls :
          Repeats(c, p) => c.result = "ok" /\ c.out = p.out

\* C2 witness: such a graph, with a node that sums two values, has answered
\* the repeated call.
C2_Witness ==
    /\ Stateless
    /\ \A e \in edges : ~FeedsBack(e)
    /\ \E c \in Calls, p \in Calls :
          /\ Repeats(c, p)
          /\ c.out = p.out
          /\ \E e \in Invocations(c) : Len(e.summed) = 2

\* ---------------------------------------------------------------- C3
\* The sum of the i-th components of the tensors of s.
RECURSIVE ComponentSum(_, _)
ComponentSum(s, k) ==
    IF s = <<>> THEN 0 ELSE s[1][k] + ComponentSum(Tail(s), k)
AllInvocations ==
    UNION {Invocations(c) : c \in Calls}
        \cup {trace[k] : k \in (DOMAIN trace) \ {1}}

\* C3: a node for which two or more contributing values were gathered is
\* called with their elementwise sum as data input ([1,2] and [3,4] give
\* [4,6]); a node with one contributing value is called with that value.
C3_SummedInputs ==
    \A e \in AllInvocations :
        /\ Len(e.summed) >= 2 =>
              \A k \in 1..2 : e.args[1][k] = ComponentSum(e.summed, k)
        /\ Len(e.summed) = 1 => e.args[1] = e.summed[1]
        /\ e.summed = <<<<1, 2>>, <<3, 4>>>> => e.args[1] = <<4, 6>>

\* C3 witness: a node was called with [1,2] and [3,4] gathered.
C3_Witness ==
    \E e \in AllInvocations :
        /\ e.summed = <<<<1, 2>>, <<3, 4>>>>
        /\ e.args[1] = <<4, 6>>

\* ---------------------------------------------------------------- C4
\* No node reaches itself along the edges.
Acyclic == \A n \in Nodes : n \notin ReachFrom(OutgoingNodes(n), Cardinality(Nodes))
IsPermutationOf(o, S) ==
    /\ Range(o) = S
    /\ Len(o) = Cardinality(S)

\* C4: for an acyclic graph with one declared input, the execution order is
\* a permutation of the nodes reachable from the input in which every node
\* comes after all of its direct predecessors, so that a forward call
\* invokes a mapped node only after all of its mapped predecessors.
C4_TopologicalOrder ==
    (ctor = "ok" /\ Acyclic) =>
       /\ IsPermutationOf(execution_order, Reachable(inputs[1]))
       /\ \A e \in edges :
             (InOrder(e[1]) /\ InOrder(e[2])) => Position(e[1]) < Position(e[2])
       /\ \A c \in Calls : \A x \in Invocations(c) :
             \A m \in Nodes :
                (<<m, x.node>> \in edges /\ InOrder(m) /\ elem[m] # None) =>
                   \E y \in Invocations(c) : y.node = m /\ y.pos < x.pos

\* ---------------------------------------------------------------- C5
Constructed == ctor = "ok"
ConstructionFailed == ctor \notin {"new", "ok"}
\* No executor object exists: nothing was ever run on one.
NoExecutor == pc = "idle" /\ calls = <<>> /\ heap = <<>> /\ trace = <<>>

\* C5: construction succeeds only with exactly one declared input and a
\* non-empty execution order; with no or several declared inputs, or an
\* empty order, it fails with an error and there is no executor.
C5_ConstructionChecks ==
    /\ Constructed => Len(inputs) = 1 /\ Len(execution_order) > 0
    /\ (ctor # "new" /\ Len(inputs) # 1) => ConstructionFailed
    /\ (ctor # "new" /\ Len(inputs) = 1 /\ Len(execution_order) = 0)
          => ConstructionFailed
    /\ ConstructionFailed => NoExecutor
    /\ ~Constructed => NoExecutor

\* C5 witness: a graph with two declared inputs was refused.
C5_Witness ==
    /\ Len(inputs) = 2
    /\ ctor = "ValueError: only one input"
    /\ NoExecutor

\* ---------------------------------------------------------------- C6
NoInputs == "ValueError: No inputs found"
\* The loop of forward stands at a mapped node that is not given the data
\* and none of whose predecessors has an entry in either cache.
AtNodeWithoutInput ==
    /\ pc = "loop"
    /\ i <= Len(execution_order)
    /\ elem[execution_order[i]] # None
    /\ ~first_node
    /\ \A m \in Nodes :
          <<m, execution_order[i]>> \in edges =>
             /\ m \notin DOMAIN heap[new_state].cache
             /\ m \notin DOMAIN heap[old_state].cache
LastCall == calls[Len(calls)]

\* C6: at a mapped node without any contributing input value, forward fails
\* at once with "No inputs found for node X": the unit is not invoked, no
\* state object is written, and no output or state is returned.
C6_NoInputsFails ==
    [][AtNodeWithoutInput =>
         /\ pc' = "idle"
         /\ Len(calls') = Len(calls) + 1
         /\ LastCall'.result = NoInputs
         /\ LastCall'.node = execution_order[i]
         /\ LastCall'.new = 0
         /\ LastCall'.trace = Tail(trace)
         /\ ~Invoked(LastCall', execution_order[i])
         /\ heap' = heap]_vars

\* C6 witness: a call has failed so after it had invoked another node.
C6_Witness ==
    \E c \in Calls :
        /\ c.result = NoInputs
        /\ c.new = 0
        /\ c.trace # <<>>
        /\ ~Invoked(c, c.node)

\* ---------------------------------------------------------------- C7
\* Node m has no mapped unit and lies between a node invoked in call c and
\* node n, earlier than n in the execution order.
UnmappedBetween(c, m, n) ==
    /\ elem[m] = None
    /\ <<m, n>> \in edges
    /\ InOrder(m)
    /\ Position(m) < Position(n)
    /\ \E e \in Invocations(c) : <<e.node, m>> \in edges

\* C7: a node without a mapped unit is a transparent passthrough and never
\* the cause of an error: the pass completes also when such a node lies
\* between an invoked node and a mapped node, so no forward call fails for
\* want of an input at a mapped node behind such a node.
C7_UnmappedPassthrough ==
    \A c \in Calls :
        c.result = NoInputs =>
           ~\E m \in Nodes : UnmappedBetween(c, m, c.node)

\* ---------------------------------------------------------------- C8
\* C8: forward never modifies the old_state object: during and after a call
\* its hidden and cache mappings are what they were when the call began, and
\* a returned state is another object, which did not exist before the call.
C8_OldStateUntouched ==
    /\ pc = "loop" =>
          /\ heap[old_state] = trace[1].before
          /\ new_state # old_state
    /\ \A c \in Calls :
          /\ heap[c.old] = c.before
          /\ c.result = "ok" => c.new # c.old /\ c.new > c.heap_size

\* C8 witness: a call given a state with cache and hidden entries has
\* returned, and another such call has failed.
C8_Witness ==
    \E c \in Calls :
        /\ Threaded(c)
        /\ c.result = "ok"
        /\ c.before.cache # EmptyDict
        /\ c.before.state # EmptyDict
        /\ heap[c.new].cache # EmptyDict
        /\ heap[c.old] = c.before

\* ---------------------------------------------------------------- C9
\* What a call gave back: an error, or an output and the returned state.
Outcome(c) ==
    IF c.result = "ok" THEN [result |-> "ok", out |-> c.out, state |-> heap[c.new]]
    ELSE [result |-> c.result, out |-> Zero, state |-> GraphExecutorState]

IrNodeNames == Range(ir.nodes.keys)

\* C10: in the IR extract_nir_graph returns, the source and the destination
\* of every edge are names of nodes of the IR's node mapping, also when a
\* traced unit is mapped to a subgraph inlined under "parent.child".
C10_EndpointsAreNodes ==
    xpc = "done" =>
       \A k \in DOMAIN ir.edges :
          /\ ir.edges[k][1] \in IrNodeNames
          /\ ir.edges[k][2] \in IrNodeNames

\* --------------------------------------------------------------- C11
\* The traced nodes without outgoing edges.
Sinks == {n \in Range(node_list) : outgoing[n] = {}}
\* A shape as the IR carries it: without the ignored dimensions.
Carried(shape) ==
    IF ignore_dims # {} THEN NpDelete(shape, ignore_dims) ELSE shape
IrEdgeSet == Range(ir.edges)
\* Node k of the IR is an Output node carrying the recorded output shape of
\* the traced node n, with an edge from n to it.
OutputNodeOf(n, k) ==
    /\ k \in IrNodeNames
    /\ ir.nodes.vals[k] = NirOutput(Carried(ModuleOutputTypes(n)))
    /\ <<n, k>> \in IrEdgeSet

\* C11: the IR has the one synthesized Input node, with the sample's shape,
\* and for every traced node without outgoing edges an Output node of its
\* own that carries that node's recorded output shape, with an edge from the
\* node to it.
C11_OutputPerSink ==
    xpc = "done" =>
       /\ <<"input">> \in IrNodeNames
       /\ ir.nodes.vals[<<"input">>] = NirInput(Carried(SampleShape))
       /\ \E f \in [Sinks -> IrNodeNames] :
             /\ \A n \in Sinks : OutputNodeOf(n, f[n])
             /\ \A n \in Sinks, m \in Sinks : n # m => f[n] # f[m]

\* --------------------------------------------------------------- C12
ExtractFailed == xpc = "ValueError: only one input"
NoIr ==
    /\ ir = [nodes |-> [keys |-> <<>>, vals |-> EmptyDict], edges |-> <<>>]
    /\ nir_nodes = [keys |-> <<>>, vals |-> EmptyDict]
    /\ nir_edges = <<>>

\* C12: when the traced graph has no root or more than one root,
\* extract_nir_graph fails with an error and returns no IR; it goes on only
\* with exactly one root.
C12_OneRootOnly ==
    /\ (xpc # "begin" /\ Cardinality(GetRoot) # 1) => ExtractFailed /\ NoIr
    /\ xpc \in {"nodes", "edges", "dedup", "done"} => Cardinality(GetRoot) = 1
    /\ ExtractFailed => NoIr

\* C12 witness: a traced graph of two nodes on a cycle, which has no root,
\* was refused.
C12_Witness ==
    /\ Cardinality(GetRoot) = 0
    /\ Len(node_list) >= 2
    /\ ExtractFailed
    /\ NoIr

\* --------------------------------------------------------------- C13
Occurrences(s, x) == Cardinality({k \in DOMAIN s : s[k] = x})

\* C13: the edge list of the returned IR holds every pair that extraction
\* generated, each exactly once, however often it was generated.
C13_EdgesDeduplicated ==
    [][xpc = "dedup" =>
         /\ xpc' = "done"
         /\ \A e \in Range(nir_edges) : Occurrences(ir'.edges, e) = 1
         /\ \A k \in DOMAIN ir'.edges : ir'.edges[k] \in Range(nir_edges)]_vars

\* C13 witness: the first traced unit was mapped to the subgraph input -> w
\* -> output, whose edges extraction generates twice (as the subgraph's edges
\* and as the chain of the keys); the returned IR has them once.
C13_Witness ==
    /\ xpc = "done"
    /\ model_map[node_list[1]] = "Chain"
    /\ LET e == <<Dotted(node_list[1], <<"input">>), Dotted(node_list[1], <<"w">>)>>
       IN Occurrences(ir.edges, e) = 1

\* --------------------------------------------------------------- C14
\* The visible output node m produced in call c, if it was invoked there.
Produced(c, m) == InvocationOf(c, m).out[1]
\* What predecessor m contributes to the k-th invocation of call c: its
\* output of this call if it was invoked before, else its output of the call
\* whose state c was given, else nothing.
ContributionOf(c, k, m) ==
    IF \E j \in 1..(k - 1) : c.trace[j].node = m
    THEN <<Produced(c, m)>>
    ELSE IF Threaded(c) /\ Invoked(CallReturning(c.given), m)
    THEN <<Produced(CallReturning(c.given), m)>>
    ELSE <<>>
RECURSIVE ContributionsOf(_, _, _)
ContributionsOf(c, k, preds) ==
    IF preds = <<>> THEN <<>>
    ELSE ContributionOf(c, k, preds[1]) \o ContributionsOf(c, k, Tail(preds))

DataGiven(c, k) ==
    /\ Len(c.trace[k].summed) =
          Len(ContributionsOf(c, k, FindSourceNodesOf(c.trace[k].node))) + 1
    /\ c.trace[k].summed[1] = c.data
\* The first node of the execution order that has a mapped unit.
FirstMapped ==
    execution_order[CHOOSE j \in DOMAIN execution_order :
        /\ elem[execution_order[j]] # None
        /\ \A k \in 1..(j - 1) : elem[execution_order[k]] = None]

\* C15 as stated: the data is a contributing input of the very first node
\* of the execution order only.
C15_DataToFirstNode ==
    \A c \in Calls : \A k \in DOMAIN c.trace :
        DataGiven(c, k) => c.trace[k].node = execution_order[1]

\* C15, amended: the data is a contributing input of the first node of the
\* execution order that has a mapped unit, and of no other node.
C15_DataToFirstMapped ==
    \A c \in Calls : \A k \in DOMAIN c.trace :
        DataGiven(c, k) <=> c.trace[k].node = FirstMapped

\* C15 witness: the first node of the order has no unit; the call gave the
\* data to the node after it and invoked a further node without the data.
C15_Witness ==
    \E c \in Calls :
        /\ c.result = "ok"
        /\ elem[execution_order[1]] = None
        /\ Len(c.trace) >= 2
        /\ DataGiven(c, 1)
        /\ c.trace[1].node = execution_order[2]
        /\ ~DataGiven(c, 2)

\* --------------------------------------------------------------- C16
\* The walk of the running call is over.
WalkDone == pc = "loop" /\ i > Len(execution_order)
\* Node n was computed in the running call, and the value it produced.
Computed(n) == \E k \in 2..Len(trace) : trace[k].node = n
ValueOf(n) == (CHOOSE e \in Range(Tail(trace)) : e.node = n).out[1]
LastNode == execution_order[Len(execution_order)]
HasSecondToLast == Len(execution_order) >= 2
SecondToLast == execution_order[Len(execution_order) - 1]
Returns(n) ==
    /\ LastCall'.result = "ok"
    /\ LastCall'.node = n
    /\ LastCall'.out = ValueOf(n)
    /\ LastCall'.new = new_state

\* C16 as stated: a pass that completes its walk returns the value of the
\* last node of the order if that node was computed, and otherwise the value
\* cached in this pass for the second-to-last node.
C16_OutputOrFallback ==
    [][WalkDone =>
         IF Computed(LastNode) THEN Returns(LastNode)
         ELSE /\ HasSecondToLast
              /\ Computed(SecondToLast)
              /\ Returns(SecondToLast)]_vars

\* --------------------------------------------------------------- C17
\* The unit given to an IR node by reconstruction, and the IR's nodes.
Given(name) == torch_nodes.vals[name]
IsMarker(name) == nir_graph.nodes.vals[name] \in {"Input", "Output"}
Switched == lpc # "switch"

\* C17: every IR node is given the unit the mapping returns for it; a node
\* the mapping declines is given the identity passthrough if and only if it
\* is an Input or Output marker and is otherwise left unmapped; the default
\* never replaces a unit the mapping returned.
C17_MappedOrDefault ==
    /\ Switched => Range(torch_nodes.keys) = Range(nir_graph.nodes.keys)
    /\ \A name \in Range(torch_nodes.keys) :
          /\ load_map[name] # None =>
                Given(name) = [kind |-> load_map[name], of |-> name]
          /\ load_map[name] = None =>
                /\ Given(name).kind = "Identity" <=> IsMarker(name)
                /\ ~IsMarker(name) => Given(name) = NoModule

\* C17 witness: a load that gave the passthrough to a declined marker, left
\* a declined node unmapped and kept the unit mapped to another marker.
C17_Witness ==
    /\ lpc = "done"
    /\ \E x, y, z \in Range(torch_nodes.keys) :
          /\ load_map[x] = None /\ IsMarker(x) /\ Given(x).kind = "Identity"
          /\ load_map[y] = None /\ ~IsMarker(y) /\ Given(y) = NoModule
          /\ load_map[z] = "Linear" /\ IsMarker(z) /\ Given(z).kind = "Linear"

\* --------------------------------------------------------------- C18
IsNode(x) == x \in Range(nir_graph.nodes.keys)
IrEdge(k) == nir_graph.edges[k]
\* The k-th IR edge has become the k-th graph edge, between the units of the
\* endpoints the claim names.
RewrittenAsClaimed(x, r, suffix) ==
    /\ (~IsNode(x) /\ IsNode(Dotted(x, suffix))) => r = Dotted(x, suffix)
    /\ IsNode(x) => r = x
EdgeAdded(k) ==
    /\ k \in DOMAIN resolved
    /\ k \in DOMAIN graph.edges
    /\ RewrittenAsClaimed(IrEdge(k)[1], resolved[k][1], <<"output">>)
    /\ RewrittenAsClaimed(IrEdge(k)[2], resolved[k][2], <<"input">>)
    /\ IsNode(resolved[k][1])
    /\ IsNode(resolved[k][2])
    /\ graph.edges[k] = <<Given(resolved[k][1]), Given(resolved[k][2])>>
Dangling(k) ==
    \/ ~IsNode(IrEdge(k)[1]) /\ ~IsNode(Dotted(IrEdge(k)[1], <<"output">>))
    \/ ~IsNode(IrEdge(k)[2]) /\ ~IsNode(Dotted(IrEdge(k)[2], <<"input">>))
EdgesDone == lpc \in {"done", "ValueError"}

\* C18 as stated: each IR edge produces exactly one graph edge, between the
\* endpoints rewritten to s.output and d.input where s, d name no node and
\* these do; an endpoint that names a node is not rewritten.
C18_OneEdgePerIrEdge ==
    /\ lpc # "KeyError"
    /\ Len(graph.edges) = Len(resolved)
    /\ \A k \in DOMAIN resolved : EdgeAdded(k)
    /\ EdgesDone => Len(graph.edges) = Len(nir_graph.edges)

\* C18, amended: each IR edge whose endpoints name nodes, as they are or
\* after the rewriting to s.output and d.input, produces exactly one graph
\* edge between them, and an endpoint that names a node is not rewritten;
\* at the first edge with an endpoint that names no node even when
\* rewritten, reconstruction fails with a KeyError and returns no graph.
C18_OneEdgePerResolvedEdge ==
    /\ Len(graph.edges) = Len(resolved)
    /\ \A k \in DOMAIN resolved : EdgeAdded(k) /\ ~Dangling(k)
    /\ EdgesDone => Len(graph.edges) = Len(nir_graph.edges)
    /\ lpc = "KeyError" =>
          /\ Len(resolved) = lidx - 1
          /\ lidx \in DOMAIN nir_graph.edges
          /\ Dangling(lidx)
    /\ lpc = "edges" /\ lidx \in DOMAIN nir_graph.edges /\ Dangling(lidx) =>
          Len(resolved) = lidx - 1

\* C18 witness: a load that rewrote both endpoints of the edge s -> s to
\* s.output -> s.input, s being no node.
C18_Witness ==
    /\ lpc = "done"
    /\ \E k \in DOMAIN resolved :
          /\ IrEdge(k) = <<<<"s">>, <<"s">>>>
          /\ resolved[k] = <<<<"s", "output">>, <<"s", "input">>>>
          /\ ~IsNode(<<"s">>)

\* --------------------------------------------------------------- C19
\* The state object a successful call returned.
StateOf(c) == heap[c.new]
MappedInOrder == {n \in Range(execution_order) : elem[n] # None}

====
